---- MODULE Spec2Model ----
(***************************************************************************)
(* Job orchestration of snaptap (src/app.py, src/helper.py): the job       *)
(* table _jobs guarded by _jobs_lock, the background download task         *)
(* _download_job driving helper.download_media, the cleanup thread         *)
(* _cleanup_old_jobs, and the read handlers api_status, api_recent and     *)
(* api_zip.  Every `with _jobs_lock:` block is one atomic action; code     *)
(* that runs outside the lock is split at the points where another thread  *)
(* can interleave.                                                         *)
(***************************************************************************)
EXTENDS Integers, Sequences, FiniteSets, TLC

\* ------------------------------------------------------------------ bounds
\* jobs submitted, urls per job, urls over all jobs
MaxJobs == 2
MaxUrls == 2
MaxItems == 2
\* ticks of the clock after start-up
MaxTicks == 1
\* byte counts yt-dlp reports: downloaded, and total (exact or estimated)
MaxDownloaded == 2
MaxTotal == 1
\* ticks per second (microseconds, scaled down)
MicrosPerSec == 2
\* JOB_TTL_HOURS and MAX_RECENT are read from the environment at start-up
JOB_TTL_TICKS == 0
MAX_RECENT == 1

\* the clock at start-up: the first tick of a second
StartTime == MicrosPerSec

JobIds == 1..MaxJobs
AllUrls == <<"A", "B", "C", "D">>
UrlLists == { SubSeq(AllUrls, 1, n) : n \in 1..MaxUrls }
\* the request bodies: single urls as mp3, batches as mp4
Payloads == { [urls |-> u, format |-> IF Len(u) = 1 THEN "mp3" ELSE "mp4"] : u \in UrlLists }
                \cup { [urls |-> <<>>, format |-> "mp3"], [urls |-> <<"A">>, format |-> "wav"] }

\* ------------------------------------------------------------ pure helpers
None == <<>>
NoFile == [title |-> "", ext |-> ""]

\* str(exc) of the exception the fetch of url u raises
ErrMsg(u) == <<"fetch failed", u>>

\* a path DATA_DIR / job_id / name
MkPath(j, nm) == [dir |-> j, name |-> nm]
\* Path(p).name
PathName(p) == p.name

RECURSIVE Digits(_, _)
\* n written in w decimal digits, as character codes
Digits(n, w) == IF w = 0 THEN <<>> ELSE Append(Digits(n \div 10, w - 1), 48 + (n % 10))

\* datetime.isoformat() + "Z": the fraction is left out when microsecond = 0
IsoFormat(t) ==
    LET sec == t \div MicrosPerSec
        micro == t % MicrosPerSec
    IN  Digits(sec, 2) \o (IF micro = 0 THEN <<>> ELSE <<46>> \o Digits(micro, 1)) \o <<90>>

RECURSIVE StrLess(_, _)
\* Python's str <: by code point, a proper prefix is smaller
StrLess(a, b) ==
    IF b = <<>> THEN FALSE
    ELSE IF a = <<>> THEN TRUE
    ELSE IF Head(a) # Head(b) THEN Head(a) < Head(b)
    ELSE StrLess(Tail(a), Tail(b))

\* round(x, 2) of the rational num/den, in hundredths; ties go to the even digit
Round2(num, den) ==
    LET q == (num * 100) \div den
        r == (num * 100) % den
    IN  IF 2 * r < den THEN q
        ELSE IF 2 * r > den THEN q + 1
        ELSE IF q % 2 = 0 THEN q ELSE q + 1

\* helper._percent_from_progress; 0 stands for a missing (or zero) count, the
\* result is in hundredths of a percent, -1 stands for None
PercentFromProgress(d) ==
    LET total == IF d.total_bytes # 0 THEN d.total_bytes ELSE d.total_bytes_estimate
        downloaded == d.downloaded_bytes
    IN  IF total # 0 /\ downloaded # 0 THEN Round2(downloaded * 100, total) ELSE -1

\* the int 100 (and 0) the code stores, in hundredths
Pct(n) == n * 100

\* ------------------------------------------------------------------- state
VARIABLES
    now,        \* datetime.utcnow(), in ticks
    nextId,     \* ids handed out so far + 1 (uuid4 is fresh)
    jobs,       \* _jobs: id -> job dict
    gone,       \* job dicts popped from _jobs, still referenced by threads
    rpc, ridx, rout, rprod,   \* _download_job / download_media per job
    dirExists, zipExists,             \* DATA_DIR on disk: job directories, archives
    cpc, to_remove, cidx,             \* _cleanup_loop / _cleanup_old_jobs
    zpc, zjob,                        \* api_zip
    spc, sjob, resp, cand,            \* api_status
    recent,                           \* last api_recent payload
    dropped,                          \* ids for which an update found no job
    lock                              \* _jobs_lock: the thread that holds it

vars == <<now, nextId, jobs, gone, rpc, ridx, rout, rprod, dirExists,
          zipExists, cpc, to_remove, cidx, zpc, zjob, spc, sjob, resp, cand,
          recent, dropped, lock>>

runnerVars == <<rpc, ridx, rout, rprod>>
diskVars == <<dirExists, zipExists>>
cleanerVars == <<cpc, to_remove, cidx>>
zipVars == <<zpc, zjob>>
statusVars == <<spc, sjob, resp>>

\* ------------------------------------------------------------- _jobs_lock
\* threading.Lock(): free, or held by one thread
Free == <<"free", 0>>
\* the threads that take the lock
Runner(j) == <<"runner", j>>
Cleaner == <<"cleaner", 0>>
Submitter == <<"api_download", 0>>
Lister == <<"api_recent", 0>>
StatusReader == <<"api_status", 0>>
ZipReader == <<"api_zip", 0>>
Updater == <<"_update_job", 0>>

\* variant of the with block: the lock is still held when the block is left
WithLockKept(h) == lock \in {Free, h} /\ lock' = h

\* `with _jobs_lock:` run by thread h: the block is entered when the lock is
\* free (or was taken by h in an earlier step) and the lock is released at its end
WithLock(h) == lock \in {Free, h} /\ lock' = Free


\* ------------------------------------------------------------- job store
\* the reference a thread holds to a job dict: the dict outlives its table entry
Obj(j) == IF j \in DOMAIN jobs THEN jobs[j] ELSE gone[j]

\* variant of _new_job: the items are built in reverse order
NewJobReversed(j, urls, fmt, t) ==
    [id |-> j,
     status |-> "queued",
     format |-> fmt,
     urls |-> urls,
     items |-> [i \in 1..Len(urls) |-> [url |-> urls[Len(urls) + 1 - i], status |-> "queued",
                                         percent |-> Pct(0), filename |-> NoFile]],
     files |-> <<>>,
     error |-> None,
     created_at |-> IsoFormat(t),
     updated_at |-> IsoFormat(t),
     created_ts |-> t]

\* _new_job: the dict built for (urls, fmt) at time t under id j
NewJob(j, urls, fmt, t) ==
    [id |-> j,
     status |-> "queued",
     format |-> fmt,
     urls |-> urls,
     items |-> [i \in 1..Len(urls) |-> [url |-> urls[i], status |-> "queued",
                                         percent |-> Pct(0), filename |-> NoFile]],
     files |-> <<>>,
     error |-> None,
     created_at |-> IsoFormat(t),
     updated_at |-> IsoFormat(t),
     created_ts |-> t]

\* dict.update
Merge(rec, upd) ==
    [f \in DOMAIN rec \cup DOMAIN upd |-> IF f \in DOMAIN upd THEN upd[f] ELSE rec[f]]

\* variant of _update_job: a missing job is created from the updates
UpdateJobUpsert(js, j, updates, t) ==
    IF j \notin DOMAIN js THEN js @@ (j :> Merge(updates, [updated_at |-> IsoFormat(t)]))
    ELSE [js EXCEPT ![j] = [Merge(@, updates) EXCEPT !.updated_at = IsoFormat(t)]]

\* variant of _update_job: the updates are applied to every job of the table
UpdateJobAll(js, j, updates, t) ==
    IF j \notin DOMAIN js THEN js
    ELSE [k \in DOMAIN js |-> [Merge(js[k], updates) EXCEPT !.updated_at = IsoFormat(t)]]

\* _update_job(job_id, **updates) at time t, as a function of the table
UpdateJob(js, j, updates, t) ==
    IF j \notin DOMAIN js THEN js
    ELSE [js EXCEPT ![j] = [Merge(@, updates) EXCEPT !.updated_at = IsoFormat(t)]]

\* variant of progress_hook: the status is written to every item
ProgressHookAll(js, j, item_index, status, info) ==
    IF j \notin DOMAIN js THEN js
    ELSE
      LET items == js[j].items
          i1 == [i \in 1..Len(items) |-> [items[i] EXCEPT !.status = status]]
          i2 == IF DOMAIN info # {} /\ "filename" \in DOMAIN info
                THEN [i1 EXCEPT ![item_index].filename = PathName(info.filename)]
                ELSE i1
          i3 == IF DOMAIN info # {} /\ "percent" \in DOMAIN info
                THEN [i2 EXCEPT ![item_index].percent = info.percent]
                ELSE i2
      IN  [js EXCEPT ![j].items = i3]

\* progress_hook(item_index, status, info) of job j; item_index counts from 1
\* here; info is a record holding the keys that are present
ProgressHook(js, j, item_index, status, info) ==
    IF j \notin DOMAIN js THEN js
    ELSE
      LET items == js[j].items
          inRange == item_index >= 1 /\ item_index <= Len(items)
          i1 == IF inRange
                THEN [items EXCEPT ![item_index].status = status]
                ELSE items
          i2 == IF DOMAIN info # {} /\ "filename" \in DOMAIN info
                THEN [i1 EXCEPT ![item_index].filename = PathName(info.filename)]
                ELSE i1
          i3 == IF DOMAIN info # {} /\ "percent" \in DOMAIN info
                THEN [i2 EXCEPT ![item_index].percent = info.percent]
                ELSE i2
      IN  [js EXCEPT ![j].items = i3]

\* ------------------------------------------------ api_status's observation
\* the fields of a job dict that api_status returns
View(rec) ==
    [status |-> rec.status,
     updated_at |-> rec.updated_at,
     error |-> rec.error,
     files |-> [k \in 1..Len(rec.files) |-> PathName(rec.files[k])],
     items |-> rec.items]

NoResp == [status |-> "", updated_at |-> <<>>, error |-> <<>>, files |-> <<>>, items |-> <<>>]

\* the fields api_status has read when it stands at pc
ReadSoFar(pc) ==
    CASE pc = "r_status" -> {}
      [] pc = "r_updated" -> {"status"}
      [] pc = "r_error" -> {"status", "updated_at"}
      [] pc = "r_files" -> {"status", "updated_at", "error"}
      [] pc = "r_items" -> {"status", "updated_at", "error", "files"}
      [] pc = "done" -> {"status", "updated_at", "error", "files", "items"}
      [] OTHER -> {}

Agrees(v, r, fields) == \A f \in fields : v[f] = r[f]

\* the values the dict of the job being read has had since the lookup that agree
\* with everything read so far, after the table became js
CandAfter(js) ==
    IF spc \in {"r_status", "r_updated", "r_error", "r_files", "r_items"}
       /\ sjob \in DOMAIN js /\ Agrees(View(js[sjob]), resp, ReadSoFar(spc))
    THEN cand \cup {View(js[sjob])}
    ELSE cand

\* an update or a hook for id j found no job
DropAfter(j) == IF j \in DOMAIN jobs THEN dropped ELSE dropped \cup {j}

\* ------------------------------------------------------------------- init
Init ==
    /\ now = StartTime
    /\ nextId = 1
    /\ jobs = << >>
    /\ gone = << >>
    /\ rpc = [j \in JobIds |-> "none"]
    /\ ridx = [j \in JobIds |-> 0]
    /\ rout = [j \in JobIds |-> <<>>]
    /\ rprod = [j \in JobIds |-> FALSE]
    /\ dirExists = [j \in JobIds |-> FALSE]
    /\ zipExists = [j \in JobIds |-> FALSE]
    /\ cpc = "sleep"
    /\ to_remove = <<>>
    /\ cidx = 0
    /\ zpc = "idle"
    /\ zjob = 0
    /\ spc = "idle"
    /\ sjob = 0
    /\ resp = NoResp
    /\ cand = {}
    /\ recent = <<>>
    /\ dropped = {}
    /\ lock = Free

\* time passes
Tick ==
    /\ now < StartTime + MaxTicks
    /\ now' = now + 1
    /\ UNCHANGED <<lock, nextId, jobs, gone, runnerVars, diskVars, cleanerVars, zipVars,
                   statusVars, cand, recent, dropped>>

\* ------------------------------------------------------------ submission
RECURSIVE SumLen(_)
SumLen(S) == IF S = {} THEN 0
             ELSE LET j == CHOOSE x \in S : TRUE IN Len(Obj(j).urls) + SumLen(S \ {j})
\* urls submitted so far
ItemsSubmitted == SumLen(DOMAIN jobs \cup DOMAIN gone)

\* variant of the id source: the id is derived from the clock
ClockId == now - StartTime + 1

\* _new_job, line 61: uuid4().hex, an id that was never handed out before
FreshId == nextId

\* _new_job, lines 75-76: _jobs[job_id] = job under the lock
StoreInsert(js, job) ==
    [k \in DOMAIN js \cup {job.id} |-> IF k = job.id THEN job ELSE js[k]]

\* api_download: validate, _new_job, schedule _download_job.  _new_job builds
\* the dict from locals only, so its build and its insert are one step here
ApiDownload ==
    \E payload \in Payloads :
        IF payload.urls = <<>> \/ payload.format \notin {"mp3", "mp4"}
        THEN UNCHANGED vars
        ELSE /\ nextId <= MaxJobs
             /\ ItemsSubmitted + Len(payload.urls) <= MaxItems
             /\ jobs' = StoreInsert(jobs, NewJob(FreshId, payload.urls, payload.format, now))
             /\ rpc' = [rpc EXCEPT ![FreshId] = "start"]
             /\ nextId' = nextId + 1
             /\ cand' = CandAfter(jobs')
             /\ WithLock(Submitter)
             /\ UNCHANGED <<now, gone, ridx, rout, rprod, diskVars, cleanerVars,
                            zipVars, statusVars, recent, dropped>>

\* ---------------------------------------------------------------- runner
\* the file the fetch of item i of job j writes: <output_dir>/<title>.<ext>
FileOf(j, i) == [title |-> Obj(j).urls[i], ext |-> Obj(j).format]
\* the name yt-dlp reports while the transfer runs
PartOf(j, i) == [title |-> Obj(j).urls[i], ext |-> "part"]

\* the dicts yt-dlp hands to its progress hooks (0: the count is missing)
ProgressDicts(j, i) ==
    [status : {"downloading", "finished", "error"},
     total_bytes : 0..MaxTotal,
     total_bytes_estimate : 0..MaxTotal,
     downloaded_bytes : 0..MaxDownloaded,
     filename : {MkPath(j, PartOf(j, i))}]

\* download_media._progress: info = dict(d), plus percent when it is known
ProgressInfo(d) ==
    LET percent == PercentFromProgress(d)
    IN  IF percent # -1
        THEN [filename |-> d.filename, percent |-> percent]
        ELSE [filename |-> d.filename]

\* _download_job, lines 90-93: look the job up
RunnerLookup(j) ==
    /\ rpc[j] = "start"
    /\ rpc' = [rpc EXCEPT ![j] = IF j \in DOMAIN jobs THEN "mkdir" ELSE "done"]
    /\ WithLock(Runner(j))
    /\ UNCHANGED <<now, nextId, jobs, gone, ridx, rout, rprod, diskVars, cleanerVars,
                   zipVars, statusVars, cand, recent, dropped>>

\* _download_job, lines 95-96: output_dir.mkdir(exist_ok=True)
RunnerMkdir(j) ==
    /\ rpc[j] = "mkdir"
    /\ dirExists' = [dirExists EXCEPT ![j] = TRUE]
    /\ rpc' = [rpc EXCEPT ![j] = "running"]
    /\ UNCHANGED <<lock, now, nextId, jobs, gone, ridx, rout, rprod, zipExists,
                   cleanerVars, zipVars, statusVars, cand, recent, dropped>>

\* the updates _download_job passes when it starts
RunningUpdates == [status |-> "running"]

\* _download_job, line 112: _update_job(job_id, status="running")
RunnerSetRunning(j) ==
    /\ rpc[j] = "running"
    /\ jobs' = UpdateJob(jobs, j, RunningUpdates, now)
    /\ dropped' = DropAfter(j)
    /\ cand' = CandAfter(jobs')
    /\ rpc' = [rpc EXCEPT ![j] = "dm_enter"]
    /\ WithLock(Runner(j))
    /\ UNCHANGED <<now, nextId, gone, ridx, rout, rprod, diskVars, cleanerVars,
                   zipVars, statusVars, recent>>

\* download_media, lines 77-114: makedirs, options, output_files = []
DmEnter(j) ==
    /\ rpc[j] = "dm_enter"
    /\ dirExists' = [dirExists EXCEPT ![j] = TRUE]
    /\ ridx' = [ridx EXCEPT ![j] = 1]
    /\ rout' = [rout EXCEPT ![j] = <<>>]
    /\ rpc' = [rpc EXCEPT ![j] = "fetch"]
    /\ UNCHANGED <<lock, now, nextId, jobs, gone, rprod, zipExists, cleanerVars,
                   zipVars, statusVars, cand, recent, dropped>>

\* download_media._progress, lines 117-123: one progress signal of yt-dlp
DmProgress(j) ==
    /\ rpc[j] = "fetch"
    /\ \E d \in ProgressDicts(j, ridx[j]) :
         IF d.status \in {"downloading", "finished"}
         THEN /\ jobs' = ProgressHook(jobs, j, ridx[j], d.status, ProgressInfo(d))
              /\ dropped' = DropAfter(j)
              /\ WithLock(Runner(j))
         ELSE UNCHANGED <<jobs, dropped, lock>>
    /\ cand' = CandAfter(jobs')
    /\ UNCHANGED <<now, nextId, gone, runnerVars, diskVars, cleanerVars, zipVars,
                   statusVars, recent>>

\* download_media, lines 140-142: extract_info returns; it has written the
\* output file (creating the directory when it is gone) or found nothing new
DmExtractOk(j) ==
    /\ rpc[j] = "fetch"
    /\ \E produced \in BOOLEAN :
         /\ rprod' = [rprod EXCEPT ![j] = produced]
         /\ IF produced
            THEN dirExists' = [dirExists EXCEPT ![j] = TRUE]
            ELSE UNCHANGED dirExists
    /\ rpc' = [rpc EXCEPT ![j] = "after"]
    /\ UNCHANGED <<lock, now, nextId, jobs, gone, ridx, rout, zipExists, cleanerVars,
                   zipVars, statusVars, cand, recent, dropped>>

\* download_media, line 143: extract_info raises
DmExtractFail(j) ==
    /\ rpc[j] = "fetch"
    /\ rpc' = [rpc EXCEPT ![j] = "errhook"]
    /\ UNCHANGED <<lock, now, nextId, jobs, gone, ridx, rout, rprod, diskVars, cleanerVars,
                   zipVars, statusVars, cand, recent, dropped>>

\* download_media, lines 144-146: progress_hook(index, "error", ...), raise
DmErrHook(j) ==
    /\ rpc[j] = "errhook"
    /\ jobs' = ProgressHook(jobs, j, ridx[j], "error",
                            [error |-> ErrMsg(Obj(j).urls[ridx[j]])])
    /\ dropped' = DropAfter(j)
    /\ cand' = CandAfter(jobs')
    /\ rpc' = [rpc EXCEPT ![j] = "except"]
    /\ WithLock(Runner(j))
    /\ UNCHANGED <<now, nextId, gone, ridx, rout, rprod, diskVars, cleanerVars,
                   zipVars, statusVars, recent>>

\* variant of the end of a fetch: without a new file no completed hook is sent
DmAfterNoHook(j) ==
    /\ rpc[j] = "after"
    /\ LET i == ridx[j]
           isNew == rprod[j] /\ dirExists[j]
           newest == MkPath(j, FileOf(j, i))
       IN  /\ rout' = [rout EXCEPT ![j] = IF isNew THEN Append(@, newest) ELSE @]
           /\ jobs' = IF isNew
                      THEN ProgressHook(jobs, j, i, "completed",
                                        [filename |-> newest, percent |-> Pct(100)])
                      ELSE jobs
           /\ IF i < Len(Obj(j).urls)
              THEN /\ ridx' = [ridx EXCEPT ![j] = i + 1]
                   /\ rpc' = [rpc EXCEPT ![j] = "fetch"]
              ELSE /\ ridx' = ridx
                   /\ rpc' = [rpc EXCEPT ![j] = "finish"]
    /\ dropped' = DropAfter(j)
    /\ cand' = CandAfter(jobs')
    /\ WithLock(Runner(j))
    /\ UNCHANGED <<now, nextId, gone, rprod, diskVars, cleanerVars, zipVars,
                   statusVars, recent>>

\* download_media, lines 148-157: the new file, output_files, the completed hook,
\* then the next url or return
DmAfter(j) ==
    /\ rpc[j] = "after"
    /\ LET i == ridx[j]
           isNew == rprod[j] /\ dirExists[j]
           newest == MkPath(j, FileOf(j, i))
       IN  /\ rout' = [rout EXCEPT ![j] = IF isNew THEN Append(@, newest) ELSE @]
           /\ jobs' = ProgressHook(jobs, j, i, "completed",
                        IF isNew THEN [filename |-> newest, percent |-> Pct(100)]
                                 ELSE [percent |-> Pct(100)])
           /\ IF i < Len(Obj(j).urls)
              THEN /\ ridx' = [ridx EXCEPT ![j] = i + 1]
                   /\ rpc' = [rpc EXCEPT ![j] = "fetch"]
              ELSE /\ ridx' = ridx
                   /\ rpc' = [rpc EXCEPT ![j] = "finish"]
    /\ dropped' = DropAfter(j)
    /\ cand' = CandAfter(jobs')
    /\ WithLock(Runner(j))
    /\ UNCHANGED <<now, nextId, gone, rprod, diskVars, cleanerVars, zipVars,
                   statusVars, recent>>

\* variant of the finished updates: the files download_media returned are dropped
FinishedUpdatesNoFiles(files) == [status |-> "finished", files |-> <<>>]

\* the updates _download_job passes when download_media returned files
FinishedUpdates(files) == [status |-> "finished", files |-> files]

\* variant of the error updates: the job is put back in the queue
ErrorUpdatesRequeue(msg) == [status |-> "queued", error |-> msg]

\* the updates _download_job passes when download_media raised exc
ErrorUpdates(msg) == [status |-> "error", error |-> msg]

\* _download_job, line 120: _update_job(job_id, status="finished", files=files)
RunnerFinish(j) ==
    /\ rpc[j] = "finish"
    /\ jobs' = UpdateJob(jobs, j, FinishedUpdates(rout[j]), now)
    /\ dropped' = DropAfter(j)
    /\ cand' = CandAfter(jobs')
    /\ rpc' = [rpc EXCEPT ![j] = "done"]
    /\ WithLock(Runner(j))
    /\ UNCHANGED <<now, nextId, gone, ridx, rout, rprod, diskVars, cleanerVars,
                   zipVars, statusVars, recent>>

\* variant of the except branch: the exception is swallowed, nothing is recorded
RunnerExceptSwallow(j) ==
    /\ rpc[j] = "except"
    /\ rpc' = [rpc EXCEPT ![j] = "done"]
    /\ UNCHANGED <<lock, now, nextId, jobs, gone, ridx, rout, rprod, diskVars, cleanerVars,
                   zipVars, statusVars, cand, recent, dropped>>

\* variant of the except branch: the error is recorded and the batch is retried
RunnerExceptRetry(j) ==
    /\ rpc[j] = "except"
    /\ jobs' = UpdateJob(jobs, j, ErrorUpdates(ErrMsg(Obj(j).urls[ridx[j]])), now)
    /\ dropped' = DropAfter(j)
    /\ cand' = CandAfter(jobs')
    /\ rpc' = [rpc EXCEPT ![j] = "dm_enter"]
    /\ WithLock(Runner(j))
    /\ UNCHANGED <<now, nextId, gone, ridx, rout, rprod, diskVars, cleanerVars,
                   zipVars, statusVars, recent>>

\* _download_job, lines 121-122: _update_job(job_id, status="error", error=str(exc))
RunnerExcept(j) ==
    /\ rpc[j] = "except"
    /\ jobs' = UpdateJob(jobs, j, ErrorUpdates(ErrMsg(Obj(j).urls[ridx[j]])), now)
    /\ dropped' = DropAfter(j)
    /\ cand' = CandAfter(jobs')
    /\ rpc' = [rpc EXCEPT ![j] = "done"]
    /\ WithLock(Runner(j))
    /\ UNCHANGED <<now, nextId, gone, ridx, rout, rprod, diskVars, cleanerVars,
                   zipVars, statusVars, recent>>

\* --------------------------------------------------------------- cleaner
\* variant of the eviction test: only jobs that have ended are evicted
ExpiredTerminalOnly(job, cutoff_ts) ==
    job.status \in {"finished", "error"} /\ job.created_ts # 0 /\ job.created_ts < cutoff_ts

\* _cleanup_old_jobs, line 132: the job is evicted
Expired(job, cutoff_ts) == job.created_ts # 0 /\ job.created_ts < cutoff_ts

RECURSIVE SeqOfSet(_)
\* the ids of S in the table's insertion order (ids are handed out in order)
SeqOfSet(S) ==
    IF S = {} THEN <<>>
    ELSE LET m == CHOOSE x \in S : \A y \in S : x <= y
         IN  <<m>> \o SeqOfSet(S \ {m})

\* _cleanup_old_jobs, lines 126-134: cutoff = utcnow() - TTL, the scan under the lock
CleanerScan ==
    /\ cpc = "sleep"
    /\ cpc' = "delete"
    /\ LET old == {j \in DOMAIN jobs : Expired(jobs[j], now - JOB_TTL_TICKS)}
       IN  /\ jobs' = [j \in DOMAIN jobs \ old |-> jobs[j]]
           /\ gone' = gone @@ [j \in old |-> jobs[j]]
           /\ to_remove' = SeqOfSet(old)
           /\ cidx' = 1
    /\ cand' = CandAfter(jobs')
    /\ WithLock(Cleaner)
    /\ UNCHANGED <<now, nextId, runnerVars, diskVars, zipVars, statusVars,
                   recent, dropped>>

\* _cleanup_old_jobs, lines 135-151, one entry of to_remove: the directory with
\* its files, then the cached zip
CleanerDelete ==
    /\ cpc = "delete"
    /\ cidx <= Len(to_remove)
    /\ LET j == to_remove[cidx]
       IN  /\ dirExists' = [dirExists EXCEPT ![j] = FALSE]
           /\ zipExists' = [zipExists EXCEPT ![j] = FALSE]
    /\ cidx' = cidx + 1
    /\ UNCHANGED <<cpc, to_remove>>
    /\ UNCHANGED <<lock, now, nextId, jobs, gone, runnerVars, zipVars, statusVars, cand,
                   recent, dropped>>

\* _cleanup_loop, line 157: the sweep has returned, time.sleep until the next one
CleanerSleep ==
    /\ cpc = "delete"
    /\ cidx > Len(to_remove)
    /\ cpc' = "sleep"
    /\ to_remove' = <<>>
    /\ cidx' = 0
    /\ UNCHANGED <<lock, now, nextId, jobs, gone, runnerVars, diskVars, zipVars,
                   statusVars, cand, recent, dropped>>

\* --------------------------------------------------------------- api_zip
\* api_zip, lines 241-249: the lookup and the checks of status and files
ZipLookup ==
    /\ zpc = "idle"
    /\ \E j \in 1..(nextId - 1) :
         IF j \in DOMAIN jobs /\ jobs[j].status = "finished" /\ jobs[j].files # <<>>
         THEN zpc' = "build" /\ zjob' = j
         ELSE UNCHANGED <<zpc, zjob>>
    /\ WithLock(ZipReader)
    /\ UNCHANGED <<now, nextId, jobs, gone, runnerVars, diskVars, cleanerVars,
                   statusVars, cand, recent, dropped>>

\* _build_zip, lines 228-236: reuse the archive or write it
ZipBuild ==
    /\ zpc = "build"
    /\ zipExists' = [zipExists EXCEPT ![zjob] = TRUE]
    /\ zpc' = "idle"
    /\ zjob' = 0
    /\ UNCHANGED <<lock, now, nextId, jobs, gone, runnerVars, dirExists,
                   cleanerVars, statusVars, cand, recent, dropped>>

\* ------------------------------------------------------------ api_status
\* api_status, lines 190-193: the lookup under the lock; 404 when absent
StatusLookup ==
    /\ spc \in {"idle", "done"}
    /\ \E j \in 1..(nextId - 1) :
         IF j \in DOMAIN jobs
         THEN /\ spc' = "r_status"
              /\ sjob' = j
              /\ resp' = NoResp
              /\ cand' = {View(jobs[j])}
         ELSE /\ spc' = "idle"
              /\ sjob' = 0
              /\ resp' = NoResp
              /\ cand' = {}
    /\ WithLock(StatusReader)
    /\ UNCHANGED <<now, nextId, jobs, gone, runnerVars, diskVars, cleanerVars,
                   zipVars, recent, dropped>>

\* api_status reads one field of the dict it holds, outside the lock
StatusReadField(pc, f, next) ==
    /\ spc = pc
    /\ resp' = [resp EXCEPT ![f] = View(Obj(sjob))[f]]
    /\ cand' = {c \in cand : c[f] = View(Obj(sjob))[f]}
    /\ spc' = next
    /\ UNCHANGED <<lock, now, nextId, jobs, gone, runnerVars, diskVars, cleanerVars,
                   zipVars, sjob, recent, dropped>>

\* api_status, lines 196-199
StatusReadStatus == StatusReadField("r_status", "status", "r_updated")
\* api_status, line 200
StatusReadUpdated == StatusReadField("r_updated", "updated_at", "r_error")
\* api_status, line 202
StatusReadError == StatusReadField("r_error", "error", "r_files")
\* api_status, line 203
StatusReadFiles == StatusReadField("r_files", "files", "r_items")
\* api_status, line 205: JSONResponse serialises the items list it holds
StatusRender == StatusReadField("r_items", "items", "done")

\* ------------------------------------------------------------ api_recent
RECURSIVE InsertDesc(_, _, _)
\* x put into s (sorted by created_at, descending) after the entries that are
\* not smaller: list.sort(reverse=True) keeps the order of equal keys
InsertDesc(x, s, js) ==
    IF s = <<>> THEN <<x>>
    ELSE IF StrLess(js[Head(s)].created_at, js[x].created_at)
         THEN <<x>> \o s
         ELSE <<Head(s)>> \o InsertDesc(x, Tail(s), js)

RECURSIVE SortRecent(_, _)
\* recent.sort(key=created_at, reverse=True) of the ids in ids (a sequence)
SortRecent(ids, js) ==
    IF ids = <<>> THEN <<>>
    ELSE InsertDesc(ids[Len(ids)], SortRecent(SubSeq(ids, 1, Len(ids) - 1), js), js)

\* ListRecent(n): api_recent's list, as ids
ListRecent(js, n) ==
    LET sorted == SortRecent(SeqOfSet(DOMAIN js), js)
    IN  SubSeq(sorted, 1, IF Len(sorted) < n THEN Len(sorted) ELSE n)

\* api_recent, lines 210-224
ApiRecent ==
    /\ recent' = [k \in 1..Len(ListRecent(jobs, MAX_RECENT)) |->
                    LET job == jobs[ListRecent(jobs, MAX_RECENT)[k]]
                    IN  [id |-> job.id, status |-> job.status, format |-> job.format,
                         created_at |-> job.created_at, url_count |-> Len(job.urls)]]
    /\ WithLock(Lister)
    /\ UNCHANGED <<now, nextId, jobs, gone, runnerVars, diskVars, cleanerVars,
                   zipVars, statusVars, cand, dropped>>

\* ------------------------------------------------------------------ spec
Next ==
    \/ Tick
    \/ ApiDownload
    \/ \E j \in JobIds : RunnerLookup(j)
    \/ \E j \in JobIds : RunnerMkdir(j)
    \/ \E j \in JobIds : RunnerSetRunning(j)
    \/ \E j \in JobIds : DmEnter(j)
    \/ \E j \in JobIds : DmProgress(j)
    \/ \E j \in JobIds : DmExtractOk(j)
    \/ \E j \in JobIds : DmExtractFail(j)
    \/ \E j \in JobIds : DmErrHook(j)
    \/ \E j \in JobIds : DmAfter(j)
    \/ \E j \in JobIds : RunnerFinish(j)
    \/ \E j \in JobIds : RunnerExcept(j)
    \/ CleanerScan
    \/ CleanerDelete
    \/ CleanerSleep
    \/ ZipLookup
    \/ ZipBuild

Spec == Init /\ [][Next]_vars

\* the Runner and the Cleaner with a client polling api_status; yt-dlp sends no
\* progress signals here, so every behaviour is one of the program
NextStatus ==
    \/ Tick
    \/ ApiDownload
    \/ \E j \in JobIds : RunnerLookup(j)
    \/ \E j \in JobIds : RunnerMkdir(j)
    \/ \E j \in JobIds : RunnerSetRunning(j)
    \/ \E j \in JobIds : DmEnter(j)
    \/ \E j \in JobIds : DmExtractOk(j)
    \/ \E j \in JobIds : DmExtractFail(j)
    \/ \E j \in JobIds : DmErrHook(j)
    \/ \E j \in JobIds : DmAfter(j)
    \/ \E j \in JobIds : RunnerFinish(j)
    \/ \E j \in JobIds : RunnerExcept(j)
    \/ CleanerScan
    \/ CleanerDelete
    \/ CleanerSleep
    \/ StatusLookup
    \/ StatusReadStatus
    \/ StatusReadUpdated
    \/ StatusReadError
    \/ StatusReadFiles
    \/ StatusRender

SpecStatus == Init /\ [][NextStatus]_vars

\* ----------------------------------------------------------------- claims
Terminal == {"finished", "error"}

\* C4: in every execution each job's status only moves queued -> running ->
\* finished or queued -> running -> error: a job enters the store queued, a
\* step changes the status along one of these edges or not at all, and a
\* finished or error status never changes.
StatusEdge(a, b) ==
    \/ a = b
    \/ a = "queued" /\ b = "running"
    \/ a = "running" /\ b \in Terminal

C4_StatusOrder ==
    [][\A j \in DOMAIN jobs' :
         IF j \in DOMAIN jobs
         THEN StatusEdge(jobs[j].status, jobs'[j].status)
         ELSE jobs'[j].status = "queued"]_vars

\* C4 witness: a job went through running and ended in error while another
\* job of the store is still queued
C4_Witness ==
    \E j \in DOMAIN jobs, k \in DOMAIN jobs :
        /\ jobs[j].status = "error" /\ rpc[j] = "done"
        /\ jobs[k].status = "queued"

\* C6: a Cleaner scan (cutoff = now - TTL) removes every job created before
\* the cutoff, whatever its status, and leaves every other job in the store
\* with an unchanged record.
C6_SweepEvictsExactlyExpired ==
    [][(cpc = "sleep" /\ cpc' = "delete") =>
         \A j \in DOMAIN jobs :
            IF jobs[j].created_ts < now - JOB_TTL_TICKS
            THEN j \notin DOMAIN jobs'
            ELSE j \in DOMAIN jobs' /\ jobs'[j] = jobs[j]]_vars

\* C6 witness: a scan has just evicted a job that was still running and kept
\* a younger job
C6_Witness ==
    /\ cpc = "delete"
    /\ \E j \in DOMAIN gone, k \in DOMAIN jobs :
         /\ to_remove = <<j>>
         /\ gone[j].status = "running"
         /\ jobs[k].created_ts > gone[j].created_ts

\* the steps of the Runner of job j that write to the store
StoreCall(j) ==
    \/ RunnerSetRunning(j)
    \/ DmProgress(j)
    \/ DmErrHook(j)
    \/ DmAfter(j)
    \/ RunnerFinish(j)
    \/ RunnerExcept(j)

\* C7: once a job id has been removed from the store, every later _update_job
\* or progress callback of its Runner leaves the store unchanged, and the id
\* never is a key of the store again (so reads of it keep answering 404).
C7_EvictedUpdatesIgnored ==
    [][\A j \in DOMAIN gone :
         /\ j \notin DOMAIN jobs'
         /\ StoreCall(j) => jobs' = jobs]_vars

\* C7 witness: the Runner of an evicted job has run to its end, its updates
\* found no job, and another job is in the store
C7_Witness ==
    \E j \in dropped :
        /\ j \in DOMAIN gone
        /\ rpc[j] = "done"
        /\ gone[j].status = "running"
        /\ DOMAIN jobs # {}

\* C9: a job enters the store queued, with every item queued at percent 0 and
\* no files; in every state len(items) = len(urls) and items[i] is the record
\* of urls[i]; no step changes a stored job's id, format, urls, created_at or
\* the length or order of its items.
C9_JobShape(job, j) ==
    /\ job.id = j
    /\ Len(job.items) = Len(job.urls)
    /\ \A i \in 1..Len(job.urls) : job.items[i].url = job.urls[i]

C9_Fresh(job) ==
    /\ job.status = "queued"
    /\ job.files = <<>>
    /\ \A i \in 1..Len(job.items) :
         job.items[i].status = "queued" /\ job.items[i].percent = 0

C9_ItemsFollowUrls ==
    [][\A j \in DOMAIN jobs' :
         /\ C9_JobShape(jobs'[j], j)
         /\ IF j \in DOMAIN jobs
            THEN /\ jobs'[j].id = jobs[j].id
                 /\ jobs'[j].format = jobs[j].format
                 /\ jobs'[j].urls = jobs[j].urls
                 /\ jobs'[j].created_at = jobs[j].created_at
                 /\ Len(jobs'[j].items) = Len(jobs[j].items)
            ELSE C9_Fresh(jobs'[j])]_vars

\* C9 witness: a job of two urls whose Runner has fetched both
C9_Witness ==
    \E j \in DOMAIN jobs :
        /\ Len(jobs[j].urls) = 2
        /\ rpc[j] = "done"
        /\ jobs[j].items[1].status = "completed"
        /\ jobs[j].items[2].status = "completed"
        /\ jobs[j].items[2].filename # NoFile

\* ------------------------------------------- the store driven by its callers
\* the field updates a caller of _update_job(j, ...) may pass
UpdateSets(j) ==
    { [status |-> st] : st \in {"queued", "running", "finished", "error"} }
      \cup { [status |-> "finished", files |-> <<MkPath(j, [title |-> "A", ext |-> "mp3"])>>],
             [status |-> "error", error |-> ErrMsg("A")],
             [files |-> <<>>],
             [error |-> None] }

\* a call _update_job(j, **updates)
UpdateJobCall ==
    \E j \in JobIds : \E updates \in UpdateSets(j) :
        /\ jobs' = UpdateJob(jobs, j, updates, now)
        /\ dropped' = DropAfter(j)
        /\ cand' = CandAfter(jobs')
        /\ WithLock(Updater)
        /\ UNCHANGED <<now, nextId, gone, runnerVars, diskVars, cleanerVars, zipVars,
                       statusVars, recent>>

NextStore ==
    \/ Tick
    \/ ApiDownload
    \/ UpdateJobCall

SpecStore == Init /\ [][NextStore]_vars

\* the Runner and the Cleaner with a client polling api_recent; yt-dlp sends no
\* progress signals here
NextRecent ==
    \/ Tick
    \/ ApiDownload
    \/ \E j \in JobIds : RunnerLookup(j)
    \/ \E j \in JobIds : RunnerMkdir(j)
    \/ \E j \in JobIds : RunnerSetRunning(j)
    \/ \E j \in JobIds : DmEnter(j)
    \/ \E j \in JobIds : DmExtractOk(j)
    \/ \E j \in JobIds : DmExtractFail(j)
    \/ \E j \in JobIds : DmErrHook(j)
    \/ \E j \in JobIds : DmAfter(j)
    \/ \E j \in JobIds : RunnerFinish(j)
    \/ \E j \in JobIds : RunnerExcept(j)
    \/ CleanerScan
    \/ CleanerDelete
    \/ CleanerSleep
    \/ ApiRecent

SpecRecent == Init /\ [][NextRecent]_vars

\* C1: the tuple (status, updated_at, error, files, items) that api_status
\* returns equals the stored job record as it stood at one single instant
\* between the handler's lookup and its return.
C1_StatusReadIsSnapshot == spc = "done" => cand # {}

\* C2: when the fetch of u[k] fails after u[0..k-1] succeeded, the job ends
\* with status error, items before k completed, item k error, items after k
\* queued, files = the paths produced for u[0..k-1] in order, and error = the
\* failure message of u[k].
C2_PartialFailureState ==
    \A j \in DOMAIN jobs :
        (rpc[j] = "done" /\ jobs[j].status = "error") =>
            LET job == jobs[j]
                k == ridx[j]
            IN  /\ \A i \in 1..(k - 1) : job.items[i].status = "completed"
                /\ job.items[k].status = "error"
                /\ \A i \in (k + 1)..Len(job.items) : job.items[i].status = "queued"
                /\ job.files = rout[j]
                /\ job.error = ErrMsg(job.urls[k])

\* C3: _update_job on a job whose status is finished or error leaves its
\* status, files and error as they were, whatever updates it is given.
C3_TerminalUpdateInert ==
    [][\A j \in DOMAIN jobs \cap DOMAIN jobs' :
         jobs[j].status \in Terminal =>
            /\ jobs'[j].status = jobs[j].status
            /\ jobs'[j].files = jobs[j].files
            /\ jobs'[j].error = jobs[j].error]_vars

\* C5: when a Cleaner sweep returns, no job it evicted has an artifact
\* directory or a cached archive on disk, also when a Runner of that job or an
\* archive request for it was in flight during the sweep.
C5_NoArtifactsAfterSweep ==
    [][(cpc = "delete" /\ cpc' = "sleep") =>
         \A k \in 1..Len(to_remove) :
            ~dirExists'[to_remove[k]] /\ ~zipExists'[to_remove[k]]]_vars

\* C8: the stored percent of every item is within [0, 100], and it does not
\* decrease from one state to the next while the item's status is downloading.
C8_PercentBoundedMonotone ==
    [][\A j \in DOMAIN jobs' : \A i \in 1..Len(jobs'[j].items) :
         /\ jobs'[j].items[i].percent >= Pct(0)
         /\ jobs'[j].items[i].percent <= Pct(100)
         /\ (j \in DOMAIN jobs /\ jobs[j].items[i].status = "downloading"
               /\ jobs'[j].items[i].status = "downloading")
            => jobs'[j].items[i].percent >= jobs[j].items[i].percent]_vars

\* C10: api_recent returns at most MAX_RECENT entries (all jobs when the store
\* holds fewer), ordered by creation time descending, and no job left out was
\* created after a job that is listed.
RecentIsMostRecent(js, r) ==
    LET listed == { r[k].id : k \in 1..Len(r) }
    IN  /\ Len(r) <= MAX_RECENT
        /\ Len(r) = Cardinality(listed)
        /\ listed \subseteq DOMAIN js
        /\ Cardinality(DOMAIN js) <= MAX_RECENT => listed = DOMAIN js
        /\ Cardinality(DOMAIN js) >= MAX_RECENT => Len(r) = MAX_RECENT
        /\ \A k \in 1..(Len(r) - 1) : js[r[k].id].created_ts >= js[r[k + 1].id].created_ts
        /\ \A a \in listed : \A b \in DOMAIN js \ listed :
              js[b].created_ts <= js[a].created_ts

C10_RecentIsMostRecent == [][ApiRecent => RecentIsMostRecent(jobs, recent')]_vars

RECURSIVE C11_Paths(_, _)
\* the paths of the output files the items from i on name, in item order
C11_Paths(job, i) ==
    IF i > Len(job.items) THEN <<>>
    ELSE (IF job.items[i].filename = [title |-> job.urls[i], ext |-> job.format]
          THEN <<MkPath(job.id, job.items[i].filename)>> ELSE <<>>)
         \o C11_Paths(job, i + 1)

\* C11: when download_media has fetched every url of a job without error and
\* the job is still in the store, the Runner's last step leaves it with status
\* finished, no error, every item completed at percent 100 and files = the
\* produced paths in url order; and no stored job is finished while one of its
\* items is not completed.
C11_FullSuccess ==
    [][\A j \in DOMAIN jobs' :
         LET job == jobs'[j]
         IN  /\ (rpc[j] = "finish" /\ rpc'[j] = "done") =>
                  /\ job.status = "finished"
                  /\ job.error = None
                  /\ \A i \in 1..Len(job.items) :
                       job.items[i].status = "completed" /\ job.items[i].percent = Pct(100)
                  /\ job.files = rout[j]
                  /\ job.files = C11_Paths(job, 1)
             /\ job.status = "finished" =>
                  \A i \in 1..Len(job.items) : job.items[i].status = "completed"]_vars

\* C11 witness: a job of two urls has finished with both files
C11_Witness ==
    \E j \in DOMAIN jobs :
        /\ rpc[j] = "done"
        /\ jobs[j].status = "finished"
        /\ Len(jobs[j].urls) = 2
        /\ Len(jobs[j].files) = 2

\* C12: a CreateJob call that runs in any interleaving with other calls,
\* updates and sweeps returns an id no job has had, adds exactly that job to
\* the store and leaves every other stored job as it was; a listing with a
\* limit that covers the store shows every stored job, so two jobs submitted
\* at the same time are both listed.
C12_Listed(js) == { ListRecent(js, MaxJobs)[k] : k \in 1..Len(ListRecent(js, MaxJobs)) }

C12_NoInsertionLost ==
    [][nextId' # nextId =>
         /\ \E j \in DOMAIN jobs' \ (DOMAIN jobs \cup DOMAIN gone) :
              /\ DOMAIN jobs' = DOMAIN jobs \cup {j}
              /\ jobs'[j].id = j
         /\ \A k \in DOMAIN jobs : jobs'[k] = jobs[k]
         /\ C12_Listed(jobs') = DOMAIN jobs']_vars

\* C12 witness: two jobs submitted at the same instant are both in the store
\* and both listed
C12_Witness ==
    \E a \in DOMAIN jobs, b \in DOMAIN jobs :
        /\ a # b
        /\ jobs[a].created_ts = jobs[b].created_ts
        /\ C12_Listed(jobs) = {a, b}

\* C13: every step that changes a field of a stored job, a progress callback
\* that changes only an item included, sets that job's updated_at to the time
\* of the step; no step changes created_at.
C13_UpdatedAtBumped ==
    [][\A j \in DOMAIN jobs \cap DOMAIN jobs' :
         /\ jobs'[j] # jobs[j] => jobs'[j].updated_at = IsoFormat(now')
         /\ jobs'[j].created_at = jobs[j].created_at]_vars

\* C14: every item's status is one of queued, downloading, completed, error.
C14_ItemStatusEnum ==
    \A j \in DOMAIN jobs : \A i \in 1..Len(jobs[j].items) :
        jobs[j].items[i].status \in {"queued", "downloading", "completed", "error"}

\* C15: at every moment the path of every completed item that produced a file
\* is in the job's files, and each value of files extends the previous one.
C15_FilesRecordedAsCompleted ==
    [][\A j \in DOMAIN jobs' :
         LET job == jobs'[j]
         IN  /\ \A i \in 1..Len(job.items) :
                  (/\ job.items[i].status = "completed"
                   /\ job.items[i].filename = [title |-> job.urls[i], ext |-> job.format])
                  => \E k \in 1..Len(job.files) :
                        job.files[k] = MkPath(j, job.items[i].filename)
             /\ j \in DOMAIN jobs =>
                  /\ Len(jobs[j].files) <= Len(job.files)
                  /\ SubSeq(job.files, 1, Len(jobs[j].files)) = jobs[j].files]_vars

\* C16: once a stored job's status is finished or error, no step changes any
\* field of its record; its Runner has ended, so no later url is attempted and
\* the items after the failing one stay queued at percent 0; the only later
\* change is the job's removal by a Cleaner scan.
C16_TerminalImmutable ==
    [][\A j \in DOMAIN jobs :
         jobs[j].status \in Terminal =>
            /\ rpc[j] = "done" /\ rpc'[j] = "done"
            /\ j \in DOMAIN jobs' => jobs'[j] = jobs[j]
            /\ j \notin DOMAIN jobs' => (cpc = "sleep" /\ cpc' = "delete")
            /\ jobs[j].status = "error" =>
                 \A i \in (ridx[j] + 1)..Len(jobs[j].items) :
                    /\ jobs[j].items[i].status = "queued"
                    /\ jobs[j].items[i].percent = Pct(0)]_vars

\* C16 witness: a job of two urls failed on its first url, time has passed
\* since, and its second item is still queued
C16_Witness ==
    \E j \in DOMAIN jobs :
        /\ jobs[j].status = "error"
        /\ ridx[j] = 1
        /\ Len(jobs[j].items) = 2
        /\ jobs[j].items[2].status = "queued"
        /\ jobs[j].updated_at # IsoFormat(now)

\* C17: a progress callback raised while url i of job J is fetched changes
\* only items[i] of J, and leaves that item's url, every other item of J and
\* J's other fields as they were.
C17_HookTouchesOnlyItsItem ==
    [][\A j \in DOMAIN jobs \cap DOMAIN jobs' :
         (DmProgress(j) \/ DmErrHook(j) \/ DmAfter(j)) =>
            /\ \A f \in DOMAIN jobs[j] \ {"items"} : jobs'[j][f] = jobs[j][f]
            /\ \A i \in 1..Len(jobs[j].items) :
                 IF i = ridx[j]
                 THEN jobs'[j].items[i].url = jobs[j].urls[ridx[j]]
                 ELSE jobs'[j].items[i] = jobs[j].items[i]]_vars

\* C17 witness: callbacks have been raised for the second url of a job after
\* its first url was completed with a file
C17_Witness ==
    \E j \in DOMAIN jobs :
        /\ rpc[j] = "fetch" /\ ridx[j] = 2
        /\ jobs[j].items[1].status = "completed"
        /\ jobs[j].items[1].filename.ext = jobs[j].format
        /\ jobs[j].items[2].status = "downloading"
        /\ jobs[j].items[2].percent > Pct(0)

\* C20: in every state every stored job has an index k such that the items
\* before k are completed and the items after k are queued at percent 0; while
\* the job's status is queued every item is queued at percent 0.
C20_SequentialShape ==
    \A j \in DOMAIN jobs :
        LET items == jobs[j].items
        IN  /\ \E k \in 1..Len(items) :
                 /\ \A i \in 1..(k - 1) : items[i].status = "completed"
                 /\ \A i \in (k + 1)..Len(items) :
                      items[i].status = "queued" /\ items[i].percent = Pct(0)
            /\ jobs[j].status = "queued" =>
                 \A i \in 1..Len(items) :
                    items[i].status = "queued" /\ items[i].percent = Pct(0)

\* C20 witness: the first url of a job completed without a new file and the
\* second url has failed
C20_Witness ==
    \E j \in DOMAIN jobs :
        /\ Len(jobs[j].items) = 2
        /\ jobs[j].items[1].status = "completed"
        /\ jobs[j].items[1].filename.ext # jobs[j].format
        /\ jobs[j].items[2].status = "error"

\* ------------------------------------------------- the Runner, scheduled
\* a step of the background task of job j other than a progress signal: the
\* task runs in the server's thread pool, and each extract_info call returns
\* or raises
RunnerStep(j) ==
    \/ RunnerLookup(j)
    \/ RunnerMkdir(j)
    \/ RunnerSetRunning(j)
    \/ DmEnter(j)
    \/ DmExtractOk(j)
    \/ DmExtractFail(j)
    \/ DmErrHook(j)
    \/ DmAfter(j)
    \/ RunnerFinish(j)
    \/ RunnerExcept(j)

NextLive ==
    \/ Tick
    \/ ApiDownload
    \/ \E j \in JobIds : RunnerLookup(j)
    \/ \E j \in JobIds : RunnerMkdir(j)
    \/ \E j \in JobIds : RunnerSetRunning(j)
    \/ \E j \in JobIds : DmEnter(j)
    \/ \E j \in JobIds : DmProgress(j)
    \/ \E j \in JobIds : DmExtractOk(j)
    \/ \E j \in JobIds : DmExtractFail(j)
    \/ \E j \in JobIds : DmErrHook(j)
    \/ \E j \in JobIds : DmAfter(j)
    \/ \E j \in JobIds : RunnerFinish(j)
    \/ \E j \in JobIds : RunnerExcept(j)
    \/ CleanerScan
    \/ CleanerDelete
    \/ CleanerSleep

SpecLive == Init /\ [][NextLive]_vars /\ \A j \in JobIds : WF_vars(RunnerStep(j))

\* C18: when each fetch call returns or raises and the Runner task is
\* scheduled fairly, every submitted job eventually has status finished or
\* error, or has been evicted by the Cleaner.
C18_EveryJobEnds ==
    \A j \in JobIds :
        (rpc[j] = "start") ~>
            (j \in DOMAIN gone \/ (j \in DOMAIN jobs /\ jobs[j].status \in Terminal))

\* C18 witness: one job was evicted while it was running and its Runner has
\* ended, another job has received progress signals and finished
C18_Witness ==
    \E j \in DOMAIN gone, k \in DOMAIN jobs :
        /\ rpc[j] = "done" /\ gone[j].status = "running"
        /\ rpc[k] = "done" /\ jobs[k].status = "finished"
        /\ jobs[k].items[1].filename # NoFile

\* ------------------------------------------------ the lock, step by step
\* here a thread may take _jobs_lock in one step and run its with block in a
\* later one, so that the other threads run while the lock is held; yt-dlp
\* sends no progress signals here, and of api_status only the lookup, its one
\* with block, is run
\* the places of _download_job and download_media that stand before a with block
LockPcs == {"start", "running", "errhook", "after", "finish", "except"}

\* api_download has a valid payload and is about to call _new_job
SubmitReady ==
    \E payload \in Payloads :
        /\ payload.urls # <<>> /\ payload.format \in {"mp3", "mp4"}
        /\ nextId <= MaxJobs
        /\ ItemsSubmitted + Len(payload.urls) <= MaxItems

\* _jobs_lock.__enter__ by thread h: it waits until the lock is free
Acquire(h) ==
    /\ lock = Free
    /\ lock' = h
    /\ UNCHANGED <<now, nextId, jobs, gone, runnerVars, diskVars, cleanerVars, zipVars,
                   statusVars, cand, recent, dropped>>

RunnerAcquire(j) == rpc[j] \in LockPcs /\ Acquire(Runner(j))
CleanerAcquire == cpc = "sleep" /\ Acquire(Cleaner)
SubmitterAcquire == SubmitReady /\ Acquire(Submitter)
StatusReaderAcquire == spc \in {"idle", "done"} /\ nextId > 1 /\ Acquire(StatusReader)

NextLock ==
    \/ Tick
    \/ ApiDownload
    \/ \E j \in JobIds : RunnerLookup(j)
    \/ \E j \in JobIds : RunnerMkdir(j)
    \/ \E j \in JobIds : RunnerSetRunning(j)
    \/ \E j \in JobIds : DmEnter(j)
    \/ \E j \in JobIds : DmExtractOk(j)
    \/ \E j \in JobIds : DmExtractFail(j)
    \/ \E j \in JobIds : DmErrHook(j)
    \/ \E j \in JobIds : DmAfter(j)
    \/ \E j \in JobIds : RunnerFinish(j)
    \/ \E j \in JobIds : RunnerExcept(j)
    \/ CleanerScan
    \/ CleanerDelete
    \/ CleanerSleep
    \/ StatusLookup
    \/ \E j \in JobIds : RunnerAcquire(j)
    \/ CleanerAcquire
    \/ SubmitterAcquire
    \/ StatusReaderAcquire

SpecLock == Init /\ [][NextLock]_vars

\* C19: the lock is not held by a Runner across mkdir, makedirs or a fetch
\* call, nor by the Cleaner across the deletion of artifacts; it is taken only
\* when it is free; and whenever it is held, its holder can run its with block
\* and release it at once, whatever the other threads are doing, so that a
\* submission or a read waiting for the lock gets it: no interleaving of
\* Runners, Cleaner, submissions and reads deadlocks.
C19_LockDiscipline ==
    /\ [](lock # Free => ENABLED (NextLock /\ lock' = Free))
    /\ [][/\ \A j \in JobIds :
               (RunnerMkdir(j) \/ DmEnter(j) \/ DmExtractOk(j) \/ DmExtractFail(j))
               => lock # Runner(j)
          /\ (CleanerDelete \/ CleanerSleep) => lock # Cleaner
          /\ (lock' # lock /\ lock' # Free) => lock = Free]_vars

\* C19 witness: a submission holds the lock while a Runner is in a fetch call
\* and the Cleaner is deleting the artifacts of an evicted job
C19_Witness ==
    /\ lock = Submitter
    /\ cpc = "delete" /\ cidx <= Len(to_remove)
    /\ \E j \in JobIds : rpc[j] = "fetch"

\* C21: with several Runners active at once, every step of the Runner of job
\* A (status change, progress callback, result or error write) leaves every
\* other job B in the store with an unchanged record; in particular the
\* failure of A changes nothing of B.  A step of the Runner of A is a step that
\* moves A's task from one place to the next, or a progress signal of A's fetch.
C21_CrossJobIsolation ==
    [][\A j \in JobIds :
         ((rpc[j] # "none" /\ rpc'[j] # rpc[j]) \/ DmProgress(j)) =>
            \A k \in DOMAIN jobs \ {j} : k \in DOMAIN jobs' /\ jobs'[k] = jobs[k]]_vars

\* C21 witness: of two jobs that ran side by side one has failed and the other
\* has finished with its file
C21_Witness ==
    \E a \in DOMAIN jobs, b \in DOMAIN jobs :
        /\ rpc[a] = "done" /\ jobs[a].status = "error"
        /\ rpc[b] = "done" /\ jobs[b].status = "finished"
        /\ jobs[b].files # <<>>
        /\ jobs[a].created_ts = jobs[b].created_ts

====
